---- MODULE Spec2Model ----
(***************************************************************************)
(* Daydream NDI bridge (Node.js): the bridge object (index.js), its two    *)
(* DaydreamServer instances (webServer.js: control panel server and SDP    *)
(* relay server), the upstream Daydream cloud API and Scope endpoint.      *)
(*                                                                         *)
(* Node runs one task at a time; a task is suspended only at an await.     *)
(* Every action below is one run of a handler or of a continuation from    *)
(* one suspension point to the next.                                       *)
(***************************************************************************)
EXTENDS Integers, Sequences, FiniteSets, Bags, TLC

\* ---------------------------------------------------------------- bounds
\* Request ids handed out by crypto.randomBytes (fresh, never reused).
MaxReq == 2
\* Streams the upstream cloud API creates.
MaxStreams == 2
\* Frame loops ever started.
MaxLoops == 2
\* ICE candidates the relay page's peer connections gather.
MaxCand == 2
\* Times the relay page runs startScope (first try and retries).
MaxAttempts == 2
\* WebSocket connections ever accepted.
MaxViewers == 2
\* Frames ever captured by the frame loops.
MaxFrames == 3

\* ------------------------------------------------------------ value sets
\* null / '' / undefined: every use in the code is a truthiness test.
Null == 0
\* setScopeInfo's streamId = 'scope-session'.
ScopeSession == -1
\* the default pipeline id 'streamdiffusionv2'.
DefaultPipeline == 1

\* this.server (control panel port) and this.sdpServer (relay/SDP port).
Servers == {"ctl", "sdp"}
\* the three correlation tables of a server.
Kinds == {"whip", "whep", "scope"}
ReqIds == 1..MaxReq
StreamIds == 1..MaxStreams
\* The SDP offers clients submit (opaque blobs).
Offers == {1, 2}
\* params.prompt of a start request (Null = no prompt in the body).
Prompts == {Null, 1}
\* params.source_index of a start request (Null = none), over the scanned sources.
SourceIndexes == {Null, 1}
\* params.scope_url (Null = none) and params.pipeline_id (Null = none).
ScopeUrls == {Null, 1}
PipelineIds == {Null, 2}
\* ICE candidates, numbered in the order the relay page's peer connections emit them.
Candidates == 1..MaxCand
\* WebSocket connections (ws objects), numbered in the order they are accepted.
Viewers == 1..MaxViewers
\* Frame sizes (width, height) a capture source delivers; the second is the target's.
FrameSizes == {<<1024, 512>>, <<512, 512>>, <<256, 1024>>}
\* No frame yet.
NoFrame == <<0, 0>>
\* `const fps = 30`; frameTime = 1000 / fps milliseconds.
Fps == 30
\* Date.now() - start at the end of an iteration, in milliseconds: just below and
\* just above frameTime (33.3 ms).
Elapsed == {33, 34}

\* OAuth login: the clock advances by TickSeconds at most MaxTicks times, and
\* consumeAuthState returns true at most MaxAccepts times for one state.
TickSeconds == 150
MaxTicks == 3
MaxAccepts == 2
\* static AUTH_STATE_TTL = 300 (seconds).
AUTH_STATE_TTL == 300
\* The states createAuthState draws: crypto.randomBytes(16) as 22 base64url
\* characters.
RandomStates == {"r1", "r2"}
\* The property names every object literal inherits from Object.prototype.
InheritedKeys == {"constructor"}
\* The `state` query parameter of a callback request ("" = absent or empty).
QueryStates == RandomStates \cup InheritedKeys \cup {""}

VARIABLES
  \* DaydreamBridge
  streaming,        \* this.streaming
  stream,           \* this.stream (Null, or the id of the StreamInfo)
  config,           \* this.config.prompt
  captureMode,      \* this.captureMode
  ndiSource,        \* ndiReceiver's connected source (Null = none)
  loops,            \* bag of the running frame loops, each its suspension point
  creating,         \* _startStreaming calls suspended in api.createStream
  \* DaydreamServer, one value per instance
  state, streamId, whipUrl, whepUrl, backendMode, scopeUrl, scopePipelineId,
  whipRequests, whepRequests, scopeRequests,
  \* background negotiation tasks suspended in the upstream call
  tasks,
  \* request ids already generated
  issued,
  \* upstream cloud API: streams created, bag of the DELETE requests issued
  created, deleted,
  \* the handler or continuation that ran last, and the response it sent
  last,
  \* history: offer submitted under each id, terminal payloads served per id, and
  \* whether an error ever left its handler or task uncaught
  offerOf, delivered, uncaught,
  \* relay page (RELAY_HTML): where its Scope negotiation stands, startScope runs so
  \* far, scopeSessionId, queuedCandidates, candidates gathered so far, and the
  \* position of flushQueuedCandidates in the queue
  relay, attempts, scopeSessionId, queuedCandidates, gathered, flushAt,
  \* POST /scope/ice-candidate requests not yet answered; history: the candidates in
  \* the order the page sent them, and in the order the server sent them upstream
  posts, forwarded, patched,
  \* DaydreamServer.wsClients per instance (insertion order), each connection's
  \* readyState and the server whose 'connection' handler registered it, and of
  \* the last broadcastFrame pass: who was sent the frame and whose send raised
  wsClients, readyState, acceptedBy, sentTo, sendRaised,
  \* size of the frame last handed to _frameToJpeg (NoFrame = none yet)
  jpegInput,
  \* history: frames captured so far (they are numbered in capture order), and per
  \* connection the number of the newest frame it was sent
  captures, newest,
  \* ~/.daydream/auth_states.json (state -> creation time in seconds), the clock
  \* in seconds; history: when each state was created (-1 = never) and how often
  \* consumeAuthState returned true for it
  authFile, now, createdAt, accepted

bridgeVars == <<streaming, stream, config, captureMode, ndiSource, loops, creating>>
sessionVars == <<state, streamId, whipUrl, whepUrl, backendMode, scopeUrl, scopePipelineId>>
tableVars == <<whipRequests, whepRequests, scopeRequests>>
upstreamVars == <<created, deleted>>
histVars == <<offerOf, delivered, uncaught>>
pageVars == <<relay, attempts, scopeSessionId, queuedCandidates, gathered, flushAt>>
iceVars == <<posts, forwarded, patched>>
wsVars == <<wsClients, readyState, acceptedBy, sentTo, sendRaised>>
frameVars == <<jpegInput, captures, newest>>
authVars == <<authFile, now, createdAt, accepted>>
vars == <<bridgeVars, sessionVars, tableVars, tasks, issued, upstreamVars, last, histVars,
          pageVars, iceVars, wsVars, frameVars, authVars>>

\* ------------------------------------------------------------- responses
NoBody ==
  [status |-> "", answer |-> Null, sessionId |-> Null, error |-> "",
   success |-> FALSE, stream_id |-> Null]

\* A response: which handler sent it (op) for which request id, its status code
\* and body; wasStreaming is this.streaming when the handler
\* began and again tells that the handler before it was a stop too.  The last two
\* fields are those of a frame-loop iteration (FrameEvent).
Event(op, id, code, body) ==
  [op |-> op, id |-> id, code |-> code, body |-> body,
   again |-> (op = "stop" /\ last.op = "stop"),
   wasStreaming |-> (op \in {"start", "stop"} /\ streaming),
   elapsed |-> 0, synthetic |-> FALSE]

\* No response: the step was a continuation of a background task.
Background ==
  [op |-> "background", id |-> Null, code |-> 0,
   body |-> NoBody, again |-> FALSE, wasStreaming |-> FALSE,
   elapsed |-> 0, synthetic |-> FALSE]

\* new Map()
EmptyMap == [i \in {} |-> NoBody]

\* ------------------------------------------------------------------ Init
\* DaydreamBridge constructor.
BridgeInit ==
  /\ streaming = FALSE
  /\ stream = Null
  /\ config = Null
  /\ captureMode = "test"
  /\ ndiSource = Null
  /\ loops = EmptyBag
  /\ creating = 0

\* DaydreamServer constructor, once per instance.
ServerInit ==
  /\ state = [s \in Servers |-> "IDLE"]
  /\ streamId = [s \in Servers |-> Null]
  /\ whipUrl = [s \in Servers |-> Null]
  /\ whepUrl = [s \in Servers |-> Null]
  /\ backendMode = [s \in Servers |-> "daydream"]
  /\ scopeUrl = [s \in Servers |-> Null]
  /\ scopePipelineId = [s \in Servers |-> Null]
  /\ whipRequests = [s \in Servers |-> EmptyMap]
  /\ whepRequests = [s \in Servers |-> EmptyMap]
  /\ scopeRequests = [s \in Servers |-> EmptyMap]
  /\ wsClients = [s \in Servers |-> <<>>]

\* The relay page as loaded: `let scopeSessionId = null; let queuedCandidates = []`,
\* no peer connection yet, pollStatus waiting for a session.
PageInit ==
  /\ relay = "idle"
  /\ attempts = 0
  /\ scopeSessionId = Null
  /\ queuedCandidates = <<>>
  /\ gathered = 0
  /\ flushAt = 0

Init ==
  /\ BridgeInit
  /\ ServerInit
  /\ PageInit
  /\ posts = {}
  /\ forwarded = <<>>
  /\ patched = <<>>
  /\ readyState = [v \in Viewers |-> "none"]
  /\ acceptedBy = [v \in Viewers |-> "none"]
  /\ sentTo = {}
  /\ sendRaised = {}
  /\ jpegInput = NoFrame
  /\ captures = 0
  /\ newest = [v \in Viewers |-> 0]
  /\ tasks = {}
  /\ issued = {}
  /\ created = {}
  /\ deleted = EmptyBag
  /\ last = Background
  /\ offerOf = [i \in ReqIds |-> Null]
  /\ delivered = [i \in ReqIds |-> 0]
  /\ uncaught = FALSE
  /\ authFile = [s \in {} |-> 0]
  /\ now = 0
  /\ createdAt = [s \in {} |-> 0]
  /\ accepted = [s \in QueryStates |-> 0]

\* ---------------------------------------------------- DaydreamServer state
\* setStreamInfo(streamId, whipUrl) on the servers S.
SetStreamInfoOn(S, id, url) ==
  /\ streamId' = [s \in Servers |-> IF s \in S THEN id ELSE streamId[s]]
  /\ whipUrl' = [s \in Servers |-> IF s \in S THEN url ELSE whipUrl[s]]
  /\ backendMode' = [s \in Servers |-> IF s \in S THEN "daydream" ELSE backendMode[s]]
  /\ state' = [s \in Servers |-> IF s \in S THEN "STREAMING" ELSE state[s]]

\* setScopeInfo(scopeUrl, pipelineId) on the servers S.
SetScopeInfoOn(S, url, pipelineId) ==
  /\ scopeUrl' = [s \in Servers |-> IF s \in S THEN url ELSE scopeUrl[s]]
  /\ scopePipelineId' = [s \in Servers |-> IF s \in S THEN pipelineId ELSE scopePipelineId[s]]
  /\ backendMode' = [s \in Servers |-> IF s \in S THEN "scope" ELSE backendMode[s]]
  /\ streamId' = [s \in Servers |-> IF s \in S THEN ScopeSession ELSE streamId[s]]
  /\ state' = [s \in Servers |-> IF s \in S THEN "STREAMING" ELSE state[s]]

\* clearStreamInfo() on the servers S.
ClearStreamInfoOn(S) ==
  /\ streamId' = [s \in Servers |-> IF s \in S THEN Null ELSE streamId[s]]
  /\ whipUrl' = [s \in Servers |-> IF s \in S THEN Null ELSE whipUrl[s]]
  /\ whepUrl' = [s \in Servers |-> IF s \in S THEN Null ELSE whepUrl[s]]
  /\ scopeUrl' = [s \in Servers |-> IF s \in S THEN Null ELSE scopeUrl[s]]
  /\ scopePipelineId' = [s \in Servers |-> IF s \in S THEN Null ELSE scopePipelineId[s]]
  /\ backendMode' = [s \in Servers |-> IF s \in S THEN "daydream" ELSE backendMode[s]]
  /\ state' = [s \in Servers |-> IF s \in S THEN "IDLE" ELSE state[s]]

StopClearsControlOnly == {"ctl"}

StopClearsSdpOnly == {"sdp"}

\* The servers _stopStreaming clears: this.server and this.sdpServer.
StopClears == Servers

\* ----------------------------------------------------------- frame loop
\* The suspension points of _frameLoop: awaiting _resizeWithLetterbox,
\* awaiting _frameToJpeg, and the cadence sleep.
LoopPcs == {"resize", "encode", "sleep"}

One(x) == SetToBag({x})

\* _generateTestFrame(): a 512 x 512 RGB buffer of the right length.
GenerateTestFrame == [size |-> <<512, 512>>, wellFormed |-> TRUE, synthetic |-> TRUE]

\* getFrame() returned null.
NullFrame == [size |-> NoFrame, wellFormed |-> FALSE, synthetic |-> FALSE]

\* What ndiReceiver.getFrame() can return: null when the receiver is not connected
\* (or absent) and when no frame arrived within the timeout; else the frame of
\* the source, whose buffer has the length its width and height announce
\* (wellFormed) or not.
GetFrame(mode, source) ==
  IF mode = "ndi" /\ source # Null
  THEN {NullFrame} \cup [size : FrameSizes, wellFormed : BOOLEAN, synthetic : {FALSE}]
  ELSE {NullFrame}

\* A capture that passes on whatever getFrame returned.
CapturedAsIs(got) == got

\* `if (!frame) frame = this._generateTestFrame()`.
Captured(got) == IF got = NullFrame THEN GenerateTestFrame ELSE got

\* The synchronous head of an iteration, beside the loops in others: capture a
\* frame (the next in capture order), call _resizeWithLetterbox and await it.
Capture(others, mode, source) ==
  /\ captures < MaxFrames
  /\ captures' = captures + 1
  /\ \E got \in GetFrame(mode, source) :
       loops' = others (+) One([pc |-> "resize", frame |-> captures + 1, img |-> Captured(got)])

\* `while (this.streaming)`: the loop l, resumed, either runs the head of the
\* next iteration or exits.
LoopTop(l) ==
  IF streaming
  THEN Capture(loops (-) One(l), captureMode, ndiSource)
  ELSE /\ loops' = loops (-) One(l)
       /\ UNCHANGED captures

\* _frameLoop() called by a start: streaming was just set, the head runs at once.
FrameLoopStart(source) == Capture(loops, "ndi", source)

\* ------------------------------------------------------- error handling
\* The places of DaydreamServer where a failure arises and that lie inside a
\* try/catch of their own handler or task: the background tasks of the three
\* negotiations, _handleScopeIceCandidate with ScopeClient.sendIceCandidate, and
\* the send of broadcastFrame.
ServerGuardsButTasks == {"ice", "send"}
ServerGuards == {"negotiation", "ice", "send"}

\* The same for DaydreamBridge: the body of a _frameLoop iteration and
\* _startStreaming around createStream.
BridgeGuards == {"frame", "start"}

\* Failures at the places in sites: those outside every guard leave their
\* handler or task as an uncaught error (an unhandled rejection).
Raise(sites) ==
  uncaught' = (uncaught \/ (\E x \in sites : x \notin ServerGuards \cup BridgeGuards))

\* ------------------------------------------------------------ the bridge
\* How an upstream call ends: a 2xx answer, a 2xx answer without the optional
\* metadata (playback header, sessionId), or a rejected promise (status >= 400,
\* socket error or the request timeout: one catch block for all).
Outcomes == {"ok", "ok-bare", "fail"}

\* `if (this.streaming) return` of _startStreaming / _startStreamingScope.
StartRefused == streaming

StopIsNoopByStream == stream = Null

\* `if (!this.streaming) return` of _stopStreaming.
StopIsNoop == ~streaming

\* A start may begin only while the model's ids and loop slots last.
CloudSlot == Cardinality(created) + creating < MaxStreams /\ BagCardinality(loops) + creating < MaxLoops
ScopeSlot == BagCardinality(loops) + creating < MaxLoops

\* _startStreaming('ndi') up to its await of api.createStream.
StartStreaming ==
  IF StartRefused
  THEN UNCHANGED <<streaming, stream, captureMode, loops, creating, sessionVars, captures>>
  ELSE /\ CloudSlot
       /\ creating' = creating + 1
       /\ UNCHANGED <<streaming, stream, captureMode, loops, sessionVars, captures>>

\* _startStreamingScope(scopeUrl, 'ndi', pipelineId): no await, runs whole.
StartStreamingScope(url, pipelineId) ==
  IF StartRefused
  THEN UNCHANGED <<streaming, stream, captureMode, loops, creating, sessionVars, captures>>
  ELSE /\ ScopeSlot
       /\ SetScopeInfoOn(Servers, url, pipelineId)
       /\ streaming' = TRUE
       /\ captureMode' = "ndi"
       /\ stream' = Null
       /\ FrameLoopStart(ndiSource')
       /\ UNCHANGED <<whipUrl, whepUrl, creating>>

\* _stopStreaming().
StopStreaming ==
  IF StopIsNoop
  THEN UNCHANGED <<streaming, stream, ndiSource, deleted, sessionVars>>
  ELSE /\ streaming' = FALSE
       /\ ndiSource' = Null
       /\ deleted' = IF stream # Null THEN deleted (+) One(stream) ELSE deleted
       /\ stream' = Null
       /\ ClearStreamInfoOn(StopClears)

\* POST /api/stream/start, on either server: the handler works on this.bridge only.
\* The start it calls is not awaited; the response is built once the call returns.
HandleStreamStart(backend, url, pipeline, prompt, sourceIndex) ==
  /\ config' = IF prompt # Null THEN prompt ELSE config
  /\ ndiSource' = IF sourceIndex # Null THEN sourceIndex ELSE ndiSource
  /\ IF backend = "scope" /\ url # Null
     THEN StartStreamingScope(url, IF pipeline # Null THEN pipeline ELSE DefaultPipeline)
     ELSE StartStreaming
  /\ last' = Event("start", Null, 200,
                   [NoBody EXCEPT !.success = TRUE,
                                  !.stream_id = IF stream' # Null THEN stream' ELSE ScopeSession])
  /\ UNCHANGED <<tableVars, tasks, issued, upstreamVars, histVars>>
  /\ UNCHANGED <<pageVars, iceVars, wsVars, jpegInput, newest>>
  /\ UNCHANGED authVars

\* What createStream hands back from a 2xx answer with stream id `id`:
\* StreamInfo{id, whipUrl: responseData.whip_url || ''}.  "ok-bare" is an answer
\* whose body carries no whip_url.
CreatedWhipUrl(id, outcome) == IF outcome = "ok" THEN id ELSE Null

CreateStreamAlwaysReturns(outcome) == TRUE

\* Whether `await this.api.createStream` returns a StreamInfo (2xx) rather than
\* throwing (status >= 400, network error, timeout).
CreateStreamReturned(outcome) == outcome # "fail"

\* The continuation of _startStreaming after `await this.api.createStream`:
\* the API answered 2xx ("ok", "ok-bare"), or the call threw ("fail") and the
\* catch logs "Failed to start stream".
CreateStreamDone(outcome) ==
  /\ creating > 0
  /\ creating' = creating - 1
  /\ IF CreateStreamReturned(outcome)
     THEN LET id == Cardinality(created) + 1 IN
          /\ created' = created \cup {id}
          /\ stream' = id
          /\ SetStreamInfoOn(Servers, id, CreatedWhipUrl(id, outcome))
          /\ streaming' = TRUE
          /\ captureMode' = "ndi"
          /\ FrameLoopStart(ndiSource)
          /\ UNCHANGED <<whepUrl, scopeUrl, scopePipelineId>>
     ELSE UNCHANGED <<created, stream, streaming, captureMode, loops, sessionVars, captures>>
  /\ Raise(IF outcome = "fail" THEN {"start"} ELSE {})
  /\ last' = IF outcome = "fail" THEN [Background EXCEPT !.op = "start-failed"] ELSE Background
  /\ UNCHANGED <<config, ndiSource, deleted, tableVars, tasks, issued, offerOf, delivered>>
  /\ UNCHANGED <<pageVars, iceVars, wsVars, jpegInput, newest>>
  /\ UNCHANGED authVars

\* POST /api/stream/stop, on either server.
HandleStreamStop ==
  /\ StopStreaming
  /\ last' = Event("stop", Null, 200,
                   [NoBody EXCEPT !.success = TRUE])
  /\ UNCHANGED <<config, captureMode, loops, creating, created, tableVars, tasks, issued, histVars>>
  /\ UNCHANGED <<pageVars, iceVars, wsVars, frameVars>>
  /\ UNCHANGED authVars

\* _resizeWithLetterbox(frame, targetW, targetH): the frame as it is when it has
\* the target size already; sharp's letterboxed frame of the target size; the
\* original frame when sharp failed.
ResizeWithLetterbox(frame, targetW, targetH, sharpOk) ==
  IF frame = <<targetW, targetH>> THEN frame
  ELSE IF sharpOk THEN <<targetW, targetH>>
  ELSE frame

\* sharp(data, {raw: {width, height, channels}}) resolves for a buffer of the
\* announced length and rejects for any other.
SharpOk(img) == img.wellFormed

\* _frameLoop resumed after `await this._resizeWithLetterbox(frame, 512, 512)`:
\* hands the result to _frameToJpeg and awaits it.
FrameResized(l) ==
  /\ l.pc = "resize"
  /\ jpegInput' = ResizeWithLetterbox(l.img.size, 512, 512, SharpOk(l.img))
  /\ loops' = (loops (-) One(l)) (+) One([l EXCEPT !.pc = "encode"])
  /\ last' = Background
  /\ UNCHANGED <<streaming, stream, config, captureMode, ndiSource, creating,
                 sessionVars, tableVars, tasks, issued, upstreamVars, histVars>>
  /\ UNCHANGED <<pageVars, iceVars, wsVars, captures, newest>>
  /\ UNCHANGED authVars

\* The members of a registry, and the registry without the connections in D
\* (Set.delete of each; the others keep their order).
Members(q) == {q[i] : i \in 1..Len(q)}
Without(q, D) == SelectSeq(q, LAMBDA v : v \notin D)

\* A loop that stops at the first connection whose send raises.
VisitedUntilRaise(q, raising) ==
  SubSeq(q, 1, IF \E i \in 1..Len(q) : readyState[q[i]] = "open" /\ q[i] \in raising
               THEN CHOOSE i \in 1..Len(q) :
                      /\ readyState[q[i]] = "open" /\ q[i] \in raising
                      /\ \A j \in 1..(i - 1) : ~(readyState[q[j]] = "open" /\ q[j] \in raising)
               ELSE Len(q))

\* broadcastFrame's `for (const client of this.wsClients)` with the try/catch
\* inside the loop body: every registered connection is visited, whatever the
\* sends before it did.
Visited(q, raising) == q

\* server.broadcastFrame(jpegData) for frame number n, where send raises for the
\* connections in raising: returns at once on an empty registry; else sends to
\* each visited connection that is OPEN, collects the others and those whose
\* send raised in deadClients, and deletes these after the loop.
BroadcastFrame(s, n, raising) ==
  LET visited == Members(Visited(wsClients[s], raising))
      open == {v \in visited : readyState[v] = "open"}
      deadClients == (visited \ open) \cup (open \cap raising)
  IN  IF wsClients[s] = <<>>
      THEN UNCHANGED <<wsVars, newest>>
      ELSE /\ sentTo' = open \ raising
           /\ sendRaised' = open \cap raising
           /\ wsClients' = [wsClients EXCEPT ![s] = Without(@, deadClients)]
           /\ newest' = [v \in Viewers |-> IF v \in open \ raising THEN n ELSE newest[v]]
           /\ UNCHANGED <<readyState, acceptedBy>>

\* A cadence that always sleeps one full interval.
SleepTimeFullInterval(elapsed) == 1000

\* sleepTime = frameTime - elapsed, in units of 1/fps milliseconds.
SleepTime(elapsed) == 1000 - Fps * elapsed

\* An error that ends the loop.
AfterErrorExits(l, elapsed) ==
  /\ loops' = loops (-) One(l)
  /\ UNCHANGED captures

\* The end of an iteration, after the try/catch: `if (sleepTime > 0) await` the
\* timer, else straight back to the test of the while.
AfterBody(l, elapsed) ==
  IF SleepTime(elapsed) > 0
  THEN /\ loops' = (loops (-) One(l)) (+) One([l EXCEPT !.pc = "sleep"])
       /\ UNCHANGED captures
  ELSE LoopTop(l)

\* `catch (e) { if (this.streaming) console.log(...) }`: the iteration goes on to
\* its end like one that did not fail.
AfterError(l, elapsed) == AfterBody(l, elapsed)

\* What an iteration did with frame l.frame: handed it to broadcastFrame, which
\* returned at once ("frame") or made a pass ("broadcast"), or failed
\* ("frame-error"); this.streaming at that time, and the time the iteration took.
FrameEvent(op, l, elapsed) ==
  [Background EXCEPT !.op = op, !.id = l.frame, !.wasStreaming = streaming,
                     !.elapsed = elapsed, !.synthetic = l.img.synthetic]

\* _frameLoop resumed after `await this._frameToJpeg`: when it resolved,
\* this.server.broadcastFrame(jpegData); when it rejected, the catch.  Then the
\* end of the iteration.
FrameEncoded(l, elapsed, raising) ==
  /\ l.pc = "encode"
  /\ IF SharpOk(l.img)
     THEN /\ BroadcastFrame("ctl", l.frame, raising)
          /\ Raise(IF sendRaised' # {} /\ wsClients["ctl"] # <<>> THEN {"send"} ELSE {})
          /\ last' = FrameEvent(IF wsClients["ctl"] = <<>> THEN "frame" ELSE "broadcast",
                                l, elapsed)
          /\ AfterBody(l, elapsed)
     ELSE /\ raising = {}
          /\ Raise({"frame"})
          /\ last' = FrameEvent("frame-error", l, elapsed)
          /\ UNCHANGED <<wsVars, newest>>
          /\ AfterError(l, elapsed)
  /\ UNCHANGED <<streaming, stream, config, captureMode, ndiSource, creating,
                 sessionVars, tableVars, tasks, issued, upstreamVars, offerOf, delivered>>
  /\ UNCHANGED <<pageVars, iceVars, jpegInput>>
  /\ UNCHANGED authVars

\* wss.on('connection') of server s: the connection is added to its registry.
\* Connections are numbered in the order they are accepted.
OnConnection(s, v) ==
  /\ readyState[v] = "none"
  /\ \A u \in Viewers : u < v => readyState[u] # "none"
  /\ readyState' = [readyState EXCEPT ![v] = "open"]
  /\ acceptedBy' = [acceptedBy EXCEPT ![v] = s]
  /\ wsClients' = [wsClients EXCEPT ![s] = Append(@, v)]
  /\ last' = [Background EXCEPT !.op = "connection", !.id = v]
  /\ UNCHANGED <<sentTo, sendRaised>>
  /\ UNCHANGED <<bridgeVars, sessionVars, tableVars, tasks, issued, upstreamVars,
                 histVars, pageVars, iceVars, frameVars>>
  /\ UNCHANGED authVars

\* The closing handshake of connection v began (readyState CLOSING): no event yet.
ViewerClosing(v) ==
  /\ readyState[v] = "open"
  /\ readyState' = [readyState EXCEPT ![v] = "closing"]
  /\ last' = Background
  /\ UNCHANGED <<wsClients, acceptedBy, sentTo, sendRaised>>
  /\ UNCHANGED <<bridgeVars, sessionVars, tableVars, tasks, issued, upstreamVars,
                 histVars, pageVars, iceVars, frameVars>>
  /\ UNCHANGED authVars

\* A delete that removes by position: the last one when ws is absent.
UnregisterByIndex(v) ==
  [wsClients EXCEPT ![acceptedBy[v]] =
     IF v \in Members(@) THEN Without(@, {v}) ELSE SubSeq(@, 1, Len(@) - 1)]

\* this.wsClients.delete(ws) of the server that registered ws.
Unregister(v) ==
  [wsClients EXCEPT ![acceptedBy[v]] = Without(@, {v})]

\* ws.on('error'): the socket failed; ws emits 'error' once and 'close' after it.
OnError(v) ==
  /\ readyState[v] \in {"open", "closing"}
  /\ readyState' = [readyState EXCEPT ![v] = "errored"]
  /\ wsClients' = Unregister(v)
  /\ last' = [Background EXCEPT !.op = "ws-error", !.id = v]
  /\ UNCHANGED <<acceptedBy, sentTo, sendRaised>>
  /\ UNCHANGED <<bridgeVars, sessionVars, tableVars, tasks, issued, upstreamVars,
                 histVars, pageVars, iceVars, frameVars>>
  /\ UNCHANGED authVars

\* ws.on('close'): the last event of a connection.
OnClose(v) ==
  /\ readyState[v] \in {"open", "closing", "errored"}
  /\ readyState' = [readyState EXCEPT ![v] = "closed"]
  /\ wsClients' = Unregister(v)
  /\ last' = [Background EXCEPT !.op = "ws-close", !.id = v]
  /\ UNCHANGED <<acceptedBy, sentTo, sendRaised>>
  /\ UNCHANGED <<bridgeVars, sessionVars, tableVars, tasks, issued, upstreamVars,
                 histVars, pageVars, iceVars, frameVars>>
  /\ UNCHANGED authVars

\* _frameLoop resumed after the cadence sleep.
FrameWake(l) ==
  /\ l.pc = "sleep"
  /\ LoopTop(l)
  /\ last' = Background
  /\ UNCHANGED <<streaming, stream, config, captureMode, ndiSource, creating,
                 sessionVars, tableVars, tasks, issued, upstreamVars, histVars>>
  /\ UNCHANGED <<pageVars, iceVars, wsVars, jpegInput, newest>>
  /\ UNCHANGED authVars


\* --------------------------------------------------- exchange correlator
\* Map.set(id, e) and Map.delete(id).
MapSet(m, id, e) == [i \in DOMAIN m \cup {id} |-> IF i = id THEN e ELSE m[i]]
MapDelete(m, id) == [i \in DOMAIN m \ {id} |-> m[i]]

\* crypto.randomBytes(8): an id no earlier request was given.
FreshIds == ReqIds \ issued

\* What the upstream answers to an offer: the answer SDP negotiated for it.
AnswerFor(offer) == offer + 10

\* The 'livepeer-playback-url' header of a WHIP answer: the playback (WHEP) URL
\* of the stream the WHIP URL belongs to.
PlaybackUrl(url) == url

\* The sessionId Scope assigns to the negotiation of request id.
ScopeSessionId(id) == id + 20

\* e.message of what exchangeSdp / sendOffer / _request throw.
ErrorMessage(outcome) == "exchange failed"

PendingSdpAwaited(offer) ==
  [status |-> "ready", offer |-> offer, answer |-> AnswerFor(offer), error |-> ""]

\* The entry a submit stores.
PendingSdp(offer) == [status |-> "pending", offer |-> offer, answer |-> Null, error |-> ""]
PendingScope == [status |-> "pending", answer |-> Null, sessionId |-> Null, error |-> ""]

ResultKeyLatest(t) == Cardinality(issued)

\* The id under which a background task stores its result: the requestId its
\* closure captured.
ResultKey(t) == t.id

StoreAnswerStatusOnly(m, t) ==
  IF ResultKey(t) \in DOMAIN m THEN [m EXCEPT ![ResultKey(t)].status = "ready"] ELSE m

\* `const reqData = map.get(requestId); if (reqData) { answer, status = 'ready' }`
StoreAnswer(m, t) ==
  IF ResultKey(t) \in DOMAIN m
  THEN [m EXCEPT ![ResultKey(t)].answer = AnswerFor(t.offer), ![ResultKey(t)].status = "ready"]
  ELSE m

StoreErrorStatusOnly(m, t, msg) ==
  IF ResultKey(t) \in DOMAIN m THEN [m EXCEPT ![ResultKey(t)].status = "error"] ELSE m

StoreErrorMessageOnly(m, t, msg) ==
  IF ResultKey(t) \in DOMAIN m THEN [m EXCEPT ![ResultKey(t)].error = msg] ELSE m

StoreErrorAll(m, t, msg) ==
  [i \in DOMAIN m |-> [m[i] EXCEPT !.error = msg, !.status = "error"]]

\* `const reqData = map.get(requestId); if (reqData) { error, status = 'error' }`
StoreError(m, t, msg) ==
  IF ResultKey(t) \in DOMAIN m
  THEN [m EXCEPT ![ResultKey(t)].error = msg, ![ResultKey(t)].status = "error"]
  ELSE m

ServeDeletesErrorsOnly(status) == status = "error"

ServeDeletesAlways(status) == TRUE

\* Whether serving an entry of this status deletes it from the table.
ServeDeletes(status) == status # "pending"

\* The HTTP status code a result request answers with, by the entry's status.
ServeCode(status) ==
  CASE status = "pending" -> 202
    [] status = "ready" -> 200
    [] OTHER -> 500

\* The body of a result response for entry e.
ServeBody(e, kind) ==
  CASE e.status = "pending" -> [NoBody EXCEPT !.status = "pending"]
    [] e.status = "ready" ->
         [NoBody EXCEPT !.answer = e.answer,
                        !.sessionId = IF kind = "scope" THEN e.sessionId ELSE Null]
    [] OTHER -> [NoBody EXCEPT !.error = IF e.error # "" THEN e.error ELSE "Unknown error"]

\* _serveWhipResult / _serveWhepResult / _serveScopeResult on table m.
ServeResult(m, s, kind, id) ==
  IF id \notin DOMAIN m
  THEN /\ last' = Event("poll", id, 404, [NoBody EXCEPT !.error = "Request not found"])
       /\ UNCHANGED <<delivered, offerOf, uncaught>>
  ELSE /\ last' = Event("poll", id, ServeCode(m[id].status), ServeBody(m[id], kind))
       /\ delivered' = IF m[id].status = "pending" THEN delivered
                       ELSE [delivered EXCEPT ![id] = @ + 1]
       /\ offerOf' = IF m[id].status = "pending" THEN offerOf
                     ELSE [offerOf EXCEPT ![id] = Null]
       /\ UNCHANGED uncaught

TableAfterServe(m, id) ==
  IF id \in DOMAIN m /\ ServeDeletes(m[id].status) THEN MapDelete(m, id) ELSE m

RoutingNeverAbsent(url) == FALSE

\* `if (!this.whipUrl)`, `if (!this.whepUrl)`, `if (!this.scopeUrl)`: the routing
\* field is null or the empty string.
RoutingAbsent(url) == url = Null

\* POST /whip on server s.
HandleWhipProxy(s, offer) ==
  /\ IF RoutingAbsent(whipUrl[s])
     THEN /\ last' = Event("submit", Null, 400, [NoBody EXCEPT !.error = "No WHIP URL available"])
          /\ UNCHANGED <<whipRequests, tasks, issued, offerOf>>
     ELSE \E id \in FreshIds :
          /\ id = Cardinality(issued) + 1
          /\ issued' = issued \cup {id}
          /\ whipRequests' = [whipRequests EXCEPT ![s] = MapSet(@, id, PendingSdp(offer))]
          /\ tasks' = tasks \cup {[srv |-> s, kind |-> "whip", id |-> id, url |-> whipUrl[s], offer |-> offer]}
          /\ offerOf' = [offerOf EXCEPT ![id] = offer]
          /\ last' = Event("submit", id, 202, NoBody)
  /\ UNCHANGED <<bridgeVars, sessionVars, whepRequests, scopeRequests, upstreamVars, delivered, uncaught>>
  /\ UNCHANGED <<pageVars, iceVars, wsVars, frameVars>>
  /\ UNCHANGED authVars

\* The background task of _handleWhipProxy resumed after `await exchangeSdp`.
WhipExchangeDone(t, outcome) ==
  /\ t \in tasks /\ t.kind = "whip"
  /\ tasks' = tasks \ {t}
  /\ IF outcome \in {"ok", "ok-bare"}
     THEN /\ whepUrl' = IF outcome = "ok" /\ PlaybackUrl(t.url) # Null
                        THEN [whepUrl EXCEPT ![t.srv] = PlaybackUrl(t.url)]
                        ELSE whepUrl
          /\ whipRequests' = [whipRequests EXCEPT ![t.srv] = StoreAnswer(@, t)]
     ELSE /\ whipRequests' = [whipRequests EXCEPT ![t.srv] = StoreError(@, t, ErrorMessage(outcome))]
          /\ UNCHANGED whepUrl
  /\ Raise(IF outcome = "fail" THEN {"negotiation"} ELSE {})
  /\ last' = Background
  /\ UNCHANGED <<bridgeVars, state, streamId, whipUrl, backendMode, scopeUrl, scopePipelineId,
                 whepRequests, scopeRequests, issued, upstreamVars, offerOf, delivered>>
  /\ UNCHANGED <<pageVars, iceVars, wsVars, frameVars>>
  /\ UNCHANGED authVars

\* GET /whip/result/:id on server s.
ServeWhipResult(s, id) ==
  /\ ServeResult(whipRequests[s], s, "whip", id)
  /\ whipRequests' = [whipRequests EXCEPT ![s] = TableAfterServe(@, id)]
  /\ UNCHANGED <<bridgeVars, sessionVars, whepRequests, scopeRequests, tasks, issued,
                 upstreamVars>>
  /\ UNCHANGED <<pageVars, iceVars, wsVars, frameVars>>
  /\ UNCHANGED authVars

\* POST /whep on server s.
HandleWhepProxy(s, offer) ==
  /\ IF RoutingAbsent(whepUrl[s])
     THEN /\ last' = Event("submit", Null, 404, [NoBody EXCEPT !.error = "No WHEP URL available yet"])
          /\ UNCHANGED <<whepRequests, tasks, issued, offerOf>>
     ELSE \E id \in FreshIds :
          /\ id = Cardinality(issued) + 1
          /\ issued' = issued \cup {id}
          /\ whepRequests' = [whepRequests EXCEPT ![s] = MapSet(@, id, PendingSdp(offer))]
          /\ tasks' = tasks \cup {[srv |-> s, kind |-> "whep", id |-> id, url |-> whepUrl[s], offer |-> offer]}
          /\ offerOf' = [offerOf EXCEPT ![id] = offer]
          /\ last' = Event("submit", id, 202, NoBody)
  /\ UNCHANGED <<bridgeVars, sessionVars, whipRequests, scopeRequests, upstreamVars, delivered, uncaught>>
  /\ UNCHANGED <<pageVars, iceVars, wsVars, frameVars>>
  /\ UNCHANGED authVars

\* The background task of _handleWhepProxy resumed after `await exchangeSdp`.
WhepExchangeDone(t, outcome) ==
  /\ t \in tasks /\ t.kind = "whep"
  /\ tasks' = tasks \ {t}
  /\ whepRequests' =
       [whepRequests EXCEPT ![t.srv] =
          IF outcome \in {"ok", "ok-bare"} THEN StoreAnswer(@, t)
          ELSE StoreError(@, t, ErrorMessage(outcome))]
  /\ Raise(IF outcome = "fail" THEN {"negotiation"} ELSE {})
  /\ last' = Background
  /\ UNCHANGED <<bridgeVars, sessionVars, whipRequests, scopeRequests, issued,
                 upstreamVars, offerOf, delivered>>
  /\ UNCHANGED <<pageVars, iceVars, wsVars, frameVars>>
  /\ UNCHANGED authVars

\* GET /whep/result/:id on server s.
ServeWhepResult(s, id) ==
  /\ ServeResult(whepRequests[s], s, "whep", id)
  /\ whepRequests' = [whepRequests EXCEPT ![s] = TableAfterServe(@, id)]
  /\ UNCHANGED <<bridgeVars, sessionVars, whipRequests, scopeRequests, tasks, issued,
                 upstreamVars>>
  /\ UNCHANGED <<pageVars, iceVars, wsVars, frameVars>>
  /\ UNCHANGED authVars

\* POST /scope/offer on server s.
HandleScopeOffer(s, offer) ==
  /\ IF RoutingAbsent(scopeUrl[s])
     THEN /\ last' = Event("submit", Null, 404, [NoBody EXCEPT !.error = "No Scope URL configured"])
          /\ UNCHANGED <<scopeRequests, tasks, issued, offerOf>>
     ELSE \E id \in FreshIds :
          /\ id = Cardinality(issued) + 1
          /\ issued' = issued \cup {id}
          /\ scopeRequests' = [scopeRequests EXCEPT ![s] = MapSet(@, id, PendingScope)]
          /\ tasks' = tasks \cup {[srv |-> s, kind |-> "scope", id |-> id, url |-> scopeUrl[s], offer |-> offer]}
          /\ offerOf' = [offerOf EXCEPT ![id] = offer]
          /\ last' = Event("submit", id, 202, NoBody)
  /\ UNCHANGED <<bridgeVars, sessionVars, whipRequests, whepRequests, upstreamVars, delivered, uncaught>>
  /\ UNCHANGED <<pageVars, iceVars, wsVars, frameVars>>
  /\ UNCHANGED authVars

\* The background task of _handleScopeOffer resumed after `await client.sendOffer`.
ScopeOfferDone(t, outcome) ==
  /\ t \in tasks /\ t.kind = "scope"
  /\ tasks' = tasks \ {t}
  /\ scopeRequests' =
       [scopeRequests EXCEPT ![t.srv] =
          IF outcome \in {"ok", "ok-bare"}
          THEN LET m == StoreAnswer(@, t) IN
               IF ResultKey(t) \in DOMAIN m
               THEN [m EXCEPT ![ResultKey(t)].sessionId =
                       IF outcome = "ok" THEN ScopeSessionId(t.id) ELSE Null]
               ELSE m
          ELSE StoreError(@, t, ErrorMessage(outcome))]
  /\ Raise(IF outcome = "fail" THEN {"negotiation"} ELSE {})
  /\ last' = Background
  /\ UNCHANGED <<bridgeVars, sessionVars, whipRequests, whepRequests, issued,
                 upstreamVars, offerOf, delivered>>
  /\ UNCHANGED <<pageVars, iceVars, wsVars, frameVars>>
  /\ UNCHANGED authVars

\* GET /scope/result/:id on server s.
ServeScopeResult(s, id) ==
  /\ ServeResult(scopeRequests[s], s, "scope", id)
  /\ scopeRequests' = [scopeRequests EXCEPT ![s] = TableAfterServe(@, id)]
  /\ UNCHANGED <<bridgeVars, sessionVars, whipRequests, whepRequests, tasks, issued,
                 upstreamVars>>
  /\ UNCHANGED <<pageVars, iceVars, wsVars, frameVars>>
  /\ UNCHANGED authVars

\* ------------------------------------------------ ICE candidates (Scope)
\* The relay page's states: pollStatus waiting ("idle"), startScope awaiting the
\* answer of its offer ("negotiating"), pollScopeResult awaiting
\* setRemoteDescription ("applying"), flushQueuedCandidates awaiting a send
\* ("flushing"), startScope returned ("done"), startScope threw ("failed").
RelayStates == {"idle", "negotiating", "applying", "flushing", "done", "failed"}

QueuedAtFromEnd(q, i) == q[Len(q) + 1 - i]

\* The i-th candidate `for (const c of queuedCandidates)` visits.
QueuedAt(q, i) == q[i]

\* sendIceCandidateToScope(c) up to its await: queue the candidate while
\* scopeSessionId is unset, else POST it.  The history keeps the caller (`via`:
\* the onicecandidate event or the flush), the session id sent and the startScope
\* run the page was in.
SendIceCandidateToScope(c, via) ==
  IF scopeSessionId = Null
  THEN /\ queuedCandidates' = Append(queuedCandidates, c)
       /\ UNCHANGED <<posts, forwarded>>
  ELSE /\ posts' = posts \cup {[cand |-> c, sessionId |-> scopeSessionId, stage |-> "request"]}
       /\ forwarded' = Append(forwarded, [cand |-> c, via |-> via, sessionId |-> scopeSessionId,
                                          attempt |-> attempts])
       /\ UNCHANGED queuedCandidates

\* pollStatus: /status reports a Scope session, so startScope() runs: a new peer
\* connection, its offer posted and pollScopeResult polling for the answer.
PollStatus ==
  /\ relay \in {"idle", "failed"}
  /\ attempts < MaxAttempts
  /\ \E s \in Servers : state[s] = "STREAMING" /\ backendMode[s] = "scope" /\ scopeUrl[s] # Null
  /\ relay' = "negotiating"
  /\ attempts' = attempts + 1
  /\ last' = Background
  /\ UNCHANGED <<scopeSessionId, queuedCandidates, gathered, flushAt>>
  /\ UNCHANGED <<bridgeVars, sessionVars, tableVars, tasks, issued, upstreamVars, histVars,
                 iceVars, wsVars, frameVars>>
  /\ UNCHANGED authVars

\* scopePc.onicecandidate with the next candidate a peer connection gathers.
OnIceCandidate ==
  /\ attempts > 0
  /\ gathered < MaxCand
  /\ gathered' = gathered + 1
  /\ SendIceCandidateToScope(gathered + 1, "event")
  /\ last' = Background
  /\ UNCHANGED <<relay, attempts, scopeSessionId, flushAt, patched>>
  /\ UNCHANGED <<bridgeVars, sessionVars, tableVars, tasks, issued, upstreamVars, histVars,
                 wsVars, frameVars>>
  /\ UNCHANGED authVars

\* pollScopeResult resumed with a terminal answer to its poll: 200 with the
\* sessionId ("ok"), 200 with sessionId '' ("ok-bare"), or an error ("fail"),
\* on which it throws and pollStatus is rescheduled.
PollScopeResult(outcome) ==
  /\ relay = "negotiating"
  /\ IF outcome = "fail"
     THEN relay' = "failed" /\ UNCHANGED scopeSessionId
     ELSE /\ scopeSessionId' = IF outcome = "ok" THEN attempts ELSE Null
          /\ relay' = "applying"
  /\ last' = Background
  /\ UNCHANGED <<attempts, queuedCandidates, gathered, flushAt>>
  /\ UNCHANGED <<bridgeVars, sessionVars, tableVars, tasks, issued, upstreamVars, histVars,
                 iceVars, wsVars, frameVars>>
  /\ UNCHANGED authVars

\* pollScopeResult resumed after `await scopePc.setRemoteDescription`: rejected,
\* it throws; resolved, flushQueuedCandidates runs up to its first await.
RemoteDescriptionSet(ok) ==
  /\ relay = "applying"
  /\ IF ~ok
     THEN relay' = "failed" /\ UNCHANGED <<flushAt, queuedCandidates, posts, forwarded>>
     ELSE IF Len(queuedCandidates) > 0 /\ scopeSessionId # Null
          THEN /\ SendIceCandidateToScope(QueuedAt(queuedCandidates, 1), "flush")
               /\ flushAt' = 1
               /\ relay' = "flushing"
          ELSE relay' = "done" /\ UNCHANGED <<flushAt, queuedCandidates, posts, forwarded>>
  /\ last' = Background
  /\ UNCHANGED <<attempts, scopeSessionId, gathered, patched>>
  /\ UNCHANGED <<bridgeVars, sessionVars, tableVars, tasks, issued, upstreamVars, histVars,
                 wsVars, frameVars>>
  /\ UNCHANGED authVars

\* flushQueuedCandidates resumed after `await sendIceCandidateToScope(c)`: the
\* POST of c was answered or failed.  The next queued candidate is sent, or the
\* loop ends and `queuedCandidates = []`.
FlushQueuedCandidates ==
  /\ relay = "flushing"
  /\ \A p \in posts : p.cand # QueuedAt(queuedCandidates, flushAt)
  /\ IF flushAt < Len(queuedCandidates)
     THEN /\ SendIceCandidateToScope(QueuedAt(queuedCandidates, flushAt + 1), "flush")
          /\ flushAt' = flushAt + 1
          /\ UNCHANGED relay
     ELSE /\ queuedCandidates' = <<>>
          /\ flushAt' = 0
          /\ relay' = "done"
          /\ UNCHANGED <<posts, forwarded>>
  /\ last' = Background
  /\ UNCHANGED <<attempts, scopeSessionId, gathered, patched>>
  /\ UNCHANGED <<bridgeVars, sessionVars, tableVars, tasks, issued, upstreamVars, histVars,
                 wsVars, frameVars>>
  /\ UNCHANGED authVars

\* The fetch of a POST rejects (network error) before it reaches the server.
FetchFailed(p) ==
  /\ p \in posts /\ p.stage = "request"
  /\ posts' = posts \ {p}
  /\ last' = Background
  /\ UNCHANGED <<forwarded, patched>>
  /\ UNCHANGED <<bridgeVars, sessionVars, tableVars, tasks, issued, upstreamVars, histVars,
                 pageVars, wsVars, frameVars>>
  /\ UNCHANGED authVars

\* A request no page is waiting for.
NoPost == [cand |-> Null, sessionId |-> Null, stage |-> "none"]

\* `if (!sessionId || !candidate) throw`, and `new ScopeClient(this.scopeUrl)`
\* throwing on an unset scopeUrl: both end in the handler's catch.
IceCandidateRejected(s, sessionId, candidate) ==
  sessionId = Null \/ candidate = Null \/ scopeUrl[s] = Null

\* POST /scope/ice-candidate on server s, up to its await of sendIceCandidate
\* (which issues the PATCH at once), or to the response of its catch block.
HandleScopeIceCandidate(s, sessionId, candidate, p) ==
  /\ IF IceCandidateRejected(s, sessionId, candidate)
     THEN /\ last' = Event("ice", Null, 500,
                           [NoBody EXCEPT !.error =
                              IF sessionId = Null \/ candidate = Null
                              THEN "Missing sessionId or candidate" ELSE "TypeError"])
          /\ posts' = posts \ {p}
          /\ Raise({"ice"})
          /\ UNCHANGED patched
     ELSE /\ patched' = Append(patched, [cand |-> candidate, sessionId |-> sessionId,
                                         failed |-> FALSE])
          /\ posts' = (posts \ {p}) \cup {[cand |-> p.cand, sessionId |-> p.sessionId,
                                           stage |-> "patch", srv |-> s,
                                           patch |-> Len(patched) + 1]}
          /\ last' = Background
          /\ UNCHANGED uncaught
  /\ UNCHANGED <<forwarded, offerOf, delivered>>
  /\ UNCHANGED <<bridgeVars, sessionVars, tableVars, tasks, issued, upstreamVars,
                 pageVars, wsVars, frameVars>>
  /\ UNCHANGED authVars

\* A forward whose failure ends the session of the server that made it.
AbortedByFailedForwardSelf(s) == {s}

\* The servers whose session a failed forward ends: sendIceCandidate's catch
\* only logs, so none.
AbortedByFailedForward(s) == {}

\* The handler resumed after `await client.sendIceCandidate`, whose PATCH was
\* answered ("ok") or failed ("fail": sendIceCandidate catches it and logs a
\* warning): res.json({success: true}) either way.
ScopeIceCandidateDone(p, outcome) ==
  /\ p \in posts /\ p.stage = "patch"
  /\ posts' = posts \ {p}
  /\ IF outcome = "fail"
     THEN /\ patched' = [patched EXCEPT ![p.patch].failed = TRUE]
          /\ IF AbortedByFailedForward(p.srv) = {}
             THEN UNCHANGED sessionVars
             ELSE ClearStreamInfoOn(AbortedByFailedForward(p.srv))
          /\ Raise({"ice"})
     ELSE UNCHANGED <<patched, sessionVars, uncaught>>
  /\ last' = Event("ice", Null, 200, [NoBody EXCEPT !.success = TRUE])
  /\ UNCHANGED <<forwarded, offerOf, delivered>>
  /\ UNCHANGED <<bridgeVars, tableVars, tasks, issued, upstreamVars,
                 pageVars, wsVars, frameVars>>
  /\ UNCHANGED authVars

\* ----------------------------------------------------------- OAuth login
\* _loadAuthStates(): the entries of the file younger than the TTL (the file is
\* not rewritten).
LoadAuthStates ==
  [s \in {x \in DOMAIN authFile : now - authFile[x] < AUTH_STATE_TTL} |-> authFile[s]]

\* _saveAuthStates(states): writeFileSync, whose failure is caught and logged.
SaveAuthStates(states, written) == authFile' = IF written THEN states ELSE authFile

\* `state in states`, for states an object literal: own and inherited properties.
HasProperty(authState, states) == authState \in DOMAIN states \/ authState \in InheritedKeys

\* createAuthState() at the start of _startLoginFlow, drawing `state`.
CreateAuthState(authState, written) ==
  /\ authState \notin DOMAIN createdAt
  /\ SaveAuthStates(MapSet(LoadAuthStates, authState, now), written)
  /\ createdAt' = MapSet(createdAt, authState, now)
  /\ last' = Background
  /\ UNCHANGED <<now, accepted>>
  /\ UNCHANGED <<bridgeVars, sessionVars, tableVars, tasks, issued, upstreamVars, histVars,
                 pageVars, iceVars, wsVars, frameVars>>

\* The result of consumeAuthState(state): `if (!state) return false`,
\* `if (!(state in states)) return false`, else true.
ConsumeResult(authState) == authState # "" /\ HasProperty(authState, LoadAuthStates)

\* The callback request of the login flow with a token and this `state`:
\* consumeAuthState(state), and 400 'Invalid state' when it returns false.
ConsumeAuthState(authState, written) ==
  /\ accepted[authState] < MaxAccepts
  /\ IF ConsumeResult(authState)
     THEN /\ SaveAuthStates(MapDelete(LoadAuthStates, authState), written)
          /\ accepted' = [accepted EXCEPT ![authState] = @ + 1]
     ELSE /\ written
          /\ UNCHANGED <<authFile, accepted>>
  /\ last' = Event("consume", Null, IF ConsumeResult(authState) THEN 0 ELSE 400,
                   [NoBody EXCEPT !.success = ConsumeResult(authState)])
  /\ UNCHANGED <<now, createdAt>>
  /\ UNCHANGED <<bridgeVars, sessionVars, tableVars, tasks, issued, upstreamVars, histVars,
                 pageVars, iceVars, wsVars, frameVars>>

\* Time passes.
Tick ==
  /\ now < MaxTicks * TickSeconds
  /\ now' = now + TickSeconds
  /\ last' = Background
  /\ UNCHANGED <<authFile, createdAt, accepted>>
  /\ UNCHANGED <<bridgeVars, sessionVars, tableVars, tasks, issued, upstreamVars, histVars,
                 pageVars, iceVars, wsVars, frameVars>>

\* ------------------------------------------------------------------ Next
\* POST /api/stream/start with the body's prompt drawn from P, its source_index
\* from X and its pipeline_id from Q.
StartRequest(P, X, Q) ==
  \E backend \in {"daydream", "scope"}, url \in ScopeUrls, pipeline \in Q,
     prompt \in P, sourceIndex \in X :
    HandleStreamStart(backend, url, pipeline, prompt, sourceIndex)

CreateStreamReturns == \E outcome \in Outcomes : CreateStreamDone(outcome)

FrameLoopStep ==
  \/ \E l \in BagToSet(loops) : FrameResized(l)
  \/ \E l \in BagToSet(loops), elapsed \in Elapsed, raising \in SUBSET Viewers :
       FrameEncoded(l, elapsed, raising)
  \/ \E l \in BagToSet(loops) : FrameWake(l)

\* The body of GET /status on server s.
StatusBodyIdle(s) ==
  [state |-> "IDLE", stream_id |-> Null, whip_url |-> Null, whep_url |-> Null,
   backend_mode |-> backendMode[s], scope_url |-> scopeUrl[s]]

StatusBody(s) ==
  [state |-> state[s], stream_id |-> streamId[s], whip_url |-> whipUrl[s],
   whep_url |-> whepUrl[s], backend_mode |-> backendMode[s], scope_url |-> scopeUrl[s]]

\* The body of GET /api/status on server s.
ApiStatusBody(s) ==
  [connected |-> TRUE, streaming |-> state[s] = "STREAMING", stream_id |-> streamId[s]]

\* GET /status and GET /api/status on server s: res.json of the fields.
HandleStatus(s, route) ==
  /\ last' = Event(IF route = "/status" THEN "status" ELSE "api-status", Null, 200,
                   IF route = "/status" THEN StatusBody(s) ELSE ApiStatusBody(s))
  /\ UNCHANGED <<bridgeVars, sessionVars, tableVars, tasks, issued, upstreamVars, histVars,
                 pageVars, iceVars, wsVars, frameVars>>
  /\ UNCHANGED authVars

StatusStep == \E s \in Servers, route \in {"/status", "/api/status"} : HandleStatus(s, route)

\* The WebSocket viewers: connections accepted by either server, and their ends.
ViewerStep ==
  \/ \E s \in Servers, v \in Viewers : OnConnection(s, v)
  \/ \E v \in Viewers : ViewerClosing(v)
  \/ \E v \in Viewers : OnError(v)
  \/ \E v \in Viewers : OnClose(v)

\* The negotiation endpoints, with the offers arriving at the servers S.  Clients
\* poll the ids they were handed, at any result endpoint of any server.
WhipStep(S) ==
  \/ \E s \in S, offer \in Offers : HandleWhipProxy(s, offer)
  \/ \E t \in tasks, outcome \in Outcomes : WhipExchangeDone(t, outcome)
  \/ \E s \in Servers, id \in issued : ServeWhipResult(s, id)

WhepStep(S) ==
  \/ \E s \in S, offer \in Offers : HandleWhepProxy(s, offer)
  \/ \E t \in tasks, outcome \in Outcomes \ {"ok-bare"} : WhepExchangeDone(t, outcome)
  \/ \E s \in Servers, id \in issued : ServeWhepResult(s, id)

ScopeStep(S) ==
  \/ \E s \in S, offer \in Offers : HandleScopeOffer(s, offer)
  \/ \E t \in tasks, outcome \in Outcomes \ {"ok-bare"} : ScopeOfferDone(t, outcome)
  \/ \E s \in Servers, id \in issued : ServeScopeResult(s, id)

\* The server the relay page sends its offers to (RELAY_HTML's SDP_PORT).
RelayServers == {"sdp"}

\* POST /api/stream/start for the Scope backend.
ScopeStartRequest ==
  \E url \in ScopeUrls \ {Null} : HandleStreamStart("scope", url, Null, Null, Null)

\* POST /scope/ice-candidate: the relay page's requests as they reach the SDP
\* server, requests of other clients that lack a field, and the answers.
IceStep ==
  \/ \E p \in posts : FetchFailed(p)
  \/ \E s \in RelayServers, p \in posts :
       p.stage = "request" /\ HandleScopeIceCandidate(s, p.sessionId, p.cand, p)
  \/ \E s \in Servers, sessionId \in {Null, 1}, candidate \in {Null, 1} :
       /\ sessionId = Null \/ candidate = Null
       /\ HandleScopeIceCandidate(s, sessionId, candidate, NoPost)
  \/ \E p \in posts, outcome \in {"ok", "fail"} : ScopeIceCandidateDone(p, outcome)

\* The relay page's Scope negotiation.
RelayStep ==
  \/ PollStatus
  \/ OnIceCandidate
  \/ \E outcome \in Outcomes : PollScopeResult(outcome)
  \/ \E ok \in BOOLEAN : RemoteDescriptionSet(ok)
  \/ FlushQueuedCandidates

\* The bridge: start and stop requests, the upstream stream creation and the
\* frame loops.
Next ==
  \/ StartRequest(Prompts, SourceIndexes, PipelineIds)
  \/ CreateStreamReturns
  \/ HandleStreamStop
  \/ FrameLoopStep

Spec == Init /\ [][Next]_vars

\* The exchange correlator: the three negotiation types as the relay page drives
\* them, with the starts and stops that give them their routing.  The frame loop
\* only reads this.streaming, and a start request's prompt and source only write
\* config and the NDI receiver, which no exchange handler reads: both are left out.
NextExchange ==
  \/ StartRequest({Null}, {Null}, {Null})
  \/ CreateStreamReturns
  \/ HandleStreamStop
  \/ WhipStep(RelayServers)
  \/ WhepStep(RelayServers)
  \/ ScopeStep(RelayServers)

SpecExchange == Init /\ [][NextExchange]_vars

\* Trickle ICE towards Scope while a Scope session is up: the session started,
\* the relay page negotiating, and the candidate endpoint.
NextIce ==
  \/ ScopeStartRequest
  \/ RelayStep
  \/ IceStep

SpecIce == Init /\ [][NextIce]_vars

\* The preview feed: a session started and stopped, its frame loop, and the
\* viewers coming and going.
NextViewers ==
  \/ ScopeStartRequest
  \/ HandleStreamStop
  \/ FrameLoopStep
  \/ ViewerStep

SpecViewers == Init /\ [][NextViewers]_vars

\* The status endpoints, polled while a session is started and stopped, the
\* relay page's offers are negotiated and viewers come and go.
NextStatus ==
  \/ ScopeStartRequest
  \/ HandleStreamStop
  \/ ScopeStep(RelayServers)
  \/ \E s \in Servers, v \in Viewers : OnConnection(s, v)
  \/ \E v \in Viewers : OnClose(v)
  \/ StatusStep

SpecStatus == Init /\ [][NextStatus]_vars

\* The OAuth login flow: states created, callback requests with any `state`
\* parameter, and the clock.
NextAuth ==
  \/ \E authState \in RandomStates, written \in BOOLEAN : CreateAuthState(authState, written)
  \/ \E authState \in QueryStates, written \in BOOLEAN : ConsumeAuthState(authState, written)
  \/ Tick

SpecAuth == Init /\ [][NextAuth]_vars

\* Weak fairness of every background negotiation task: Node resumes a task once
\* the promise it awaits settles, and the upstream call settles (answer, error or
\* the request timeout).
NegotiationReturns(id) ==
  \E t \in tasks, outcome \in Outcomes :
    /\ t.id = id
    /\ \/ WhipExchangeDone(t, outcome)
       \/ outcome # "ok-bare" /\ WhepExchangeDone(t, outcome)
       \/ outcome # "ok-bare" /\ ScopeOfferDone(t, outcome)

SpecExchangeFair == SpecExchange /\ \A id \in ReqIds : WF_vars(NegotiationReturns(id))

\* ---------------------------------------------------------------- claims
Table(kind) ==
  CASE kind = "whip" -> whipRequests
    [] kind = "whep" -> whepRequests
    [] OTHER -> scopeRequests

\* The places (server, table) that hold an entry for id.
Homes(id) == {h \in Servers \X Kinds : id \in DOMAIN Table(h[2])[h[1]]}

StatusOf(id) == {Table(h[2])[h[1]][id].status : h \in Homes(id)}

rest ==
  <<bridgeVars, sessionVars, tableVars, tasks, issued, upstreamVars, histVars,
    pageVars, iceVars, wsVars, frameVars, authVars>>

\* C1: at-most-once delivery.  A poll that finds the entry of its id terminal
\* answers with the payload (200 with the answer, 500 with the error) and removes
\* the entry; every poll of an id whose payload was served answers 404 and
\* serves nothing; no id has its payload served twice.
C1_AtMostOnce ==
  [][ /\ \A id \in ReqIds : delivered'[id] <= 1
      /\ (last'.op = "poll" /\ last'.code \in {200, 500}) =>
           /\ StatusOf(last'.id) \in {{"ready"}, {"error"}}
           /\ delivered[last'.id] = 0 /\ delivered'[last'.id] = 1
           /\ \A h \in Servers \X Kinds : last'.id \notin DOMAIN Table(h[2])'[h[1]]
           /\ IF last'.code = 200 THEN last'.body.answer # Null ELSE last'.body.error # ""
      /\ (last'.op = "poll" /\ delivered[last'.id] = 1) =>
           /\ last'.code = 404
           /\ UNCHANGED <<delivered, tableVars>>
      /\ \A s \in Servers, id \in ReqIds :
           /\ (ServeWhipResult(s, id) /\ id \in DOMAIN whipRequests[s]
                 /\ whipRequests[s][id].status # "pending") => last'.code \in {200, 500}
           /\ (ServeWhepResult(s, id) /\ id \in DOMAIN whepRequests[s]
                 /\ whepRequests[s][id].status # "pending") => last'.code \in {200, 500}
           /\ (ServeScopeResult(s, id) /\ id \in DOMAIN scopeRequests[s]
                 /\ scopeRequests[s][id].status # "pending") => last'.code \in {200, 500}
    ]_vars

\* C1 witness: an id whose payload was served is polled again and reports 404.
C1_Witness == last.op = "poll" /\ last.code = 404 /\ delivered[last.id] = 1

\* C2: a poll of a PENDING entry answers 202 {status: "pending"} and changes
\* nothing: the entry stays, pending, and every other variable keeps its value.
C2_PendingPollFrame ==
  [][ /\ (last'.op = "poll" /\ last'.code = 202) =>
           /\ last'.body.status = "pending"
           /\ StatusOf(last'.id) = {"pending"}
           /\ UNCHANGED rest
      /\ \A s \in Servers, id \in ReqIds :
           /\ (ServeWhipResult(s, id) /\ id \in DOMAIN whipRequests[s]
                 /\ whipRequests[s][id].status = "pending") => last'.code = 202
           /\ (ServeWhepResult(s, id) /\ id \in DOMAIN whepRequests[s]
                 /\ whepRequests[s][id].status = "pending") => last'.code = 202
           /\ (ServeScopeResult(s, id) /\ id \in DOMAIN scopeRequests[s]
                 /\ scopeRequests[s][id].status = "pending") => last'.code = 202
    ]_vars

\* C2 witness: a pending entry was polled while another exchange is also held.
C2_Witness ==
  /\ last.op = "poll" /\ last.code = 202
  /\ \E id \in ReqIds \ {last.id} : Homes(id) # {}

C4_AnswerOfOwnOffer ==
  [][ (last'.op = "poll" /\ last'.code = 200) =>
        /\ offerOf[last'.id] # Null
        /\ last'.body.answer = AnswerFor(offerOf[last'.id])
    ]_vars

\* C4 witness: answer-A is returned for offer-A polled under its id while an
\* exchange submitted with another offer is held under another id.
C4_Witness ==
  /\ last.op = "poll" /\ last.code = 200 /\ last.body.answer = AnswerFor(1)
  /\ \E id \in ReqIds \ {last.id} : offerOf[id] = 2 /\ Homes(id) # {}

\* C5: every exchange eventually leaves PENDING.
C5_LeavesPending ==
  \A id \in ReqIds : ("pending" \in StatusOf(id)) ~> ("pending" \notin StatusOf(id))

\* C5 witness: an exchange that was submitted has become ERROR and another READY.
C5_Witness ==
  \E i, j \in ReqIds : StatusOf(i) = {"error"} /\ StatusOf(j) = {"ready"}

\* C6: a step in which a negotiation fails turns exactly that exchange's entry
\* into ERROR with a nonempty message, and changes neither the session record
\* nor any other entry; the poll that serves an ERROR entry answers 500 with that
\* message.
C6_FailureIsLocal ==
  [][ /\ \A t \in tasks :
           (t \notin tasks' /\ "error" \in {Table(h[2])'[h[1]][t.id].status : h \in Homes(t.id)}) =>
             /\ UNCHANGED <<bridgeVars, sessionVars, upstreamVars, issued>>
             /\ \A h \in Servers \X Kinds :
                  /\ DOMAIN Table(h[2])'[h[1]] = DOMAIN Table(h[2])[h[1]]
                  /\ \A id \in DOMAIN Table(h[2])[h[1]] :
                       IF id = t.id /\ h = <<t.srv, t.kind>>
                       THEN /\ Table(h[2])[h[1]][id].status = "pending"
                            /\ Table(h[2])'[h[1]][id].error # ""
                       ELSE Table(h[2])'[h[1]][id] = Table(h[2])[h[1]][id]
      /\ (last'.op = "poll" /\ last'.code = 500) =>
           \E h \in Homes(last'.id) :
             /\ Table(h[2])[h[1]][last'.id].status = "error"
             /\ last'.body.error = Table(h[2])[h[1]][last'.id].error
      /\ \A s \in Servers, id \in ReqIds :
           /\ (ServeWhipResult(s, id) /\ id \in DOMAIN whipRequests[s]
                 /\ whipRequests[s][id].status = "error") => last'.code = 500
           /\ (ServeWhepResult(s, id) /\ id \in DOMAIN whepRequests[s]
                 /\ whepRequests[s][id].status = "error") => last'.code = 500
           /\ (ServeScopeResult(s, id) /\ id \in DOMAIN scopeRequests[s]
                 /\ scopeRequests[s][id].status = "error") => last'.code = 500
    ]_vars

\* C6 witness: the error of a failed exchange was served with 500 while another
\* exchange's entry is still pending.
C6_Witness ==
  /\ last.op = "poll" /\ last.code = 500 /\ last.body.error = ErrorMessage("fail")
  /\ \E id \in ReqIds \ {last.id} : StatusOf(id) = {"pending"}

\* C7 (as claimed): a start request that arrives while streaming is answered
\* with a failure and changes nothing of the bridge or of the session record.
C7_StartWhileStreamingRefused ==
  [][ (last'.op = "start" /\ last'.wasStreaming) =>
        /\ last'.body.success = FALSE
        /\ UNCHANGED <<bridgeVars, sessionVars, upstreamVars>>
    ]_vars

\* C8 (as claimed): at most one session at a time, whatever the interleaving of
\* start requests: at most one upstream stream exists that no stop has deleted,
\* and at most one frame loop runs.
C8_SingleSession ==
  /\ Cardinality(created \ BagToSet(deleted)) <= 1
  /\ BagCardinality(loops) <= 1

\* C9: a stop that directly follows a stop answers success, changes nothing (no
\* DELETE is issued) and leaves the bridge not streaming and both servers IDLE.
C9_StopIdempotent ==
  [][ last'.again =>
        /\ last.op = "stop"
        /\ last'.code = 200 /\ last'.body.success
        /\ UNCHANGED rest
        /\ ~streaming'
        /\ \A s \in Servers : state'[s] = "IDLE"
    ]_vars

\* C9 witness: two stops in a row, the first of which stopped a cloud session.
C9_Witness == last.op = "stop" /\ last.again /\ deleted # EmptyBag

\* C10: after a stop that found the bridge streaming, both servers hold the
\* constructor's session record.
C10_StopResetsBoth ==
  (last.op = "stop" /\ last.wasStreaming) =>
    \A s \in Servers :
      /\ state[s] = "IDLE"
      /\ streamId[s] = Null
      /\ whipUrl[s] = Null
      /\ whepUrl[s] = Null
      /\ scopeUrl[s] = Null
      /\ scopePipelineId[s] = Null
      /\ backendMode[s] = "daydream"

\* C10 witness: a cloud session was stopped (its DELETE was issued).
C10_Witness == last.op = "stop" /\ last.wasStreaming /\ deleted # EmptyBag

\* C11 (as claimed): a WHIP negotiation that completes after a stop writes no
\* playback URL: on every server, while state is IDLE whepUrl is unset.
C11_NoPlaybackUrlWhileIdle ==
  \A s \in Servers : state[s] = "IDLE" => whepUrl[s] = Null

\* C12 (as claimed): in a session, whepUrl is unset until a WHIP negotiation of
\* that session has succeeded: a server that is STREAMING with a whepUrl is in
\* cloud mode and the whepUrl is the playback URL of the session's own whipUrl.
C12_PlaybackUrlOfThisSession ==
  \A s \in Servers :
    (state[s] = "STREAMING" /\ whepUrl[s] # Null) =>
      /\ backendMode[s] = "daydream"
      /\ whipUrl[s] # Null
      /\ whepUrl[s] = PlaybackUrl(whipUrl[s])

\* C13 (as claimed): the session record is never partially valid: a server whose
\* state is STREAMING holds the routing of its backend mode (cloud: stream id and
\* whipUrl; self-hosted: scopeUrl and pipeline id).
C13_RoutingSetWhileStreaming ==
  \A s \in Servers :
    state[s] = "STREAMING" =>
      IF backendMode[s] = "daydream"
      THEN streamId[s] # Null /\ whipUrl[s] # Null
      ELSE scopeUrl[s] # Null /\ scopePipelineId[s] # Null

\* The candidates the flush sent, the candidates the page sent in all, and what
\* the server sent upstream out of a set of candidates, each in sending order.
ViaFlush(e) == e.via = "flush"
Flushed == SelectSeq(forwarded, ViaFlush)
CandsOf(q) == {q[i].cand : i \in 1..Len(q)}
Increasing(q) == \A i, j \in 1..Len(q) : i < j => q[i].cand < q[j].cand
WasFlushed(e) == e.cand \in CandsOf(Flushed)

\* C14: the candidates queued before the session id was established are sent by
\* the flush in the order they were queued (candidates are numbered in arrival
\* order), from the head of the queue on, and reach the upstream in that order.
C14_QueuedForwardedInOrder ==
  /\ Increasing(Flushed)
  /\ Increasing(SelectSeq(patched, WasFlushed))
  /\ relay = "flushing" =>
       /\ Len(Flushed) = flushAt
       /\ \A i \in 1..flushAt : Flushed[i].cand = queuedCandidates[i]
  /\ Increasing([i \in 1..Len(queuedCandidates) |-> [cand |-> queuedCandidates[i]]])

\* C14 witness: two queued candidates were flushed and both reached the upstream.
C14_Witness ==
  /\ relay = "done"
  /\ Len(Flushed) = 2
  /\ Len(SelectSeq(patched, WasFlushed)) = 2

\* C15 (as claimed): no candidate overtakes a candidate that arrived before it:
\* the page sends the candidates in arrival order.
C15_NoOvertaking == Increasing(forwarded)

\* C16 (as claimed): a candidate is sent only under the session id of the
\* negotiation the page is running (never while that id is unknown), no candidate
\* is sent twice, and when the flush is over the queue is empty and every
\* candidate gathered so far was sent.
C16_ForwardedOnceUnderKnownId ==
  /\ \A i \in 1..Len(forwarded) : forwarded[i].sessionId = forwarded[i].attempt
  /\ \A i, j \in 1..Len(forwarded) : forwarded[i].cand = forwarded[j].cand => i = j
  /\ (relay = "done" /\ scopeSessionId # Null) =>
       /\ queuedCandidates = <<>>
       /\ CandsOf(forwarded) = 1..gathered

\* C17 (as claimed): a candidate request without sessionId or candidate is
\* answered with a 4xx status and nothing is sent upstream.
C17_MissingFieldIsClientError ==
  [][ (last'.op = "ice" /\ last'.body.error = "Missing sessionId or candidate") =>
        /\ last'.code \in 400..499
        /\ UNCHANGED patched
    ]_vars

\* C18: a pass of broadcastFrame calls send for every registered viewer whose
\* transport is open, whatever the sends before it did; after the pass the
\* registry holds, in their order, exactly the viewers that were open and whose
\* send did not raise; the pass ends normally and touches nothing else.
C18_BroadcastReachesEveryOpenViewer ==
  [][ last'.op = "broadcast" =>
        LET registered == Members(wsClients["ctl"])
            open == {v \in registered : readyState[v] = "open"}
        IN  /\ sentTo' \cup sendRaised' = open
            /\ sentTo' \cap sendRaised' = {}
            /\ wsClients'["ctl"] = Without(wsClients["ctl"], (registered \ open) \cup sendRaised')
            /\ wsClients'["sdp"] = wsClients["sdp"]
            /\ last'.body.error = ""
            /\ UNCHANGED <<readyState, acceptedBy, streaming, sessionVars, tableVars>> ]_vars

\* Viewer 1 was registered before viewer 2 and its send raised: viewer 2 was sent
\* the frame all the same, and viewer 1 was removed.
C18_Witness ==
  /\ last.op = "broadcast"
  /\ sendRaised = {1}
  /\ sentTo = {2}
  /\ wsClients["ctl"] = <<2>>

\* C19: an 'error' or 'close' handler that runs for a viewer no longer in its
\* server's registry leaves the registries and all other state of the program as
\* they were.
C19_UnregisterAbsentIsNoop ==
  [][ ( /\ last'.op \in {"ws-error", "ws-close"}
        /\ last'.id \notin Members(wsClients[acceptedBy[last'.id]]) ) =>
        UNCHANGED <<wsClients, acceptedBy, sentTo, sendRaised, bridgeVars, sessionVars,
                    tableVars, tasks, issued, upstreamVars, histVars, pageVars,
                    iceVars, frameVars>> ]_vars

\* Viewer 1 was pruned by the last pass (its send raised) and then closed, while
\* viewer 2 is still registered.
C19_Witness ==
  /\ last.op = "ws-close"
  /\ last.id = 1
  /\ sendRaised = {1}
  /\ acceptedBy[1] = "ctl"
  /\ wsClients["ctl"] = <<2>>

\* C20: the frame handed to the encoder is always exactly 512 x 512.
C20_EncoderInputIsTarget == jpegInput # NoFrame => jpegInput = <<512, 512>>

\* The loop record of frame n, before and after a step.
IterationOf(n) == {l \in BagToSet(loops) : l.frame = n}
IterationAfter(n) == {l \in BagToSet(loops') : l.frame = n}
FrameOps == {"frame", "broadcast", "frame-error"}

\* C21: an iteration whose capture yields no frame (always so when the receiver
\* is not connected) works on a synthetic 512 x 512 frame: that frame is handed
\* to the encoder and then to broadcastFrame, once, in the same iteration, and
\* the iteration does not take the error path.
C21_PlaceholderForMissingFrame ==
  [][ /\ \A l \in BagToSet(loops') :
           (l.frame = captures + 1 /\ ndiSource' = Null) => l.img = GenerateTestFrame
      /\ \A l \in BagToSet(loops) :
           (l.img.synthetic /\ l \notin BagToSet(loops')) =>
             CASE l.pc = "resize" ->
                    /\ jpegInput' = <<512, 512>>
                    /\ IterationAfter(l.frame) = {[l EXCEPT !.pc = "encode"]}
               [] l.pc = "encode" ->
                    /\ last'.op \in {"frame", "broadcast"}
                    /\ last'.id = l.frame
                    /\ last'.synthetic
               [] OTHER -> last'.op \notin FrameOps ]_vars

\* The third frame in a row was handed to broadcastFrame as a placeholder, the
\* receiver being connected but silent.
C21_Witness ==
  /\ last.op = "frame"
  /\ last.synthetic
  /\ last.id = 3
  /\ ndiSource # Null

\* C22: an iteration that failed (the encoder rejected) ends like any other: while
\* the session is streaming its loop is still there, asleep or at the head of the
\* next iteration, and the other loops and the session are untouched.
C22_IterationErrorIsCaught ==
  [][ last'.op = "frame-error" =>
        LET l == CHOOSE r \in BagToSet(loops) : r.frame = last'.id
        IN  /\ l.pc = "encode"
            /\ streaming =>
                 \/ loops' = (loops (-) One(l)) (+) One([l EXCEPT !.pc = "sleep"])
                 \/ /\ captures' = captures + 1
                    /\ \E r \in BagToSet(loops') :
                         /\ r.frame = captures'
                         /\ r.pc = "resize"
                         /\ loops' = (loops (-) One(l)) (+) One(r)
            /\ UNCHANGED <<streaming, sessionVars, wsVars>> ]_vars

\* After a failed iteration the only loop is at the head of the next one.
C22_Witness ==
  /\ last.op = "frame-error"
  /\ streaming
  /\ BagCardinality(loops) = 1
  /\ \E r \in BagToSet(loops) : r.pc = "resize" /\ r.frame = last.id + 1

\* C23: at most one frame loop is active at any time.
C23_AtMostOneLoop == Cardinality(BagToSet(loops)) <= 1

\* C27: no viewer is sent a frame captured before one it was sent already.
C27_FramesInCaptureOrder ==
  [][ \A v \in Viewers : newest'[v] >= newest[v] ]_vars

\* C28: the iteration of frame n sleeps exactly when it took less than the frame
\* time; else its loop is at once at the head of the next iteration (or gone,
\* the session having stopped); frame n is not in the pipeline any more, and only
\* freshly captured frames enter it.
C28_CadenceDiscipline ==
  [][ /\ last'.op \in FrameOps =>
           LET n == last'.id
               l == CHOOSE r \in BagToSet(loops) : r.frame = n
           IN  /\ (IterationAfter(n) # {}) <=> (Fps * last'.elapsed < 1000)
               /\ \A r \in IterationAfter(n) : r.pc = "sleep"
               /\ (IterationAfter(n) = {} /\ streaming) =>
                    \E r \in BagToSet(loops') :
                      /\ r.frame = captures + 1 /\ r.pc = "resize"
                      /\ loops' = (loops (-) One(l)) (+) One(r)
      /\ \A r \in BagToSet(loops') \ BagToSet(loops) :
           r.pc = "resize" => r.frame = captures + 1 ]_vars

\* An iteration that ran behind went straight on to the next capture.
C28_Witness ==
  /\ last.op = "broadcast"
  /\ last.elapsed = 34
  /\ BagCardinality(loops) = 1
  /\ \E r \in BagToSet(loops) : r.pc = "resize" /\ r.frame = last.id + 1

\* C29: a frame is handed to broadcastFrame only while the session is STREAMING.
C29_NoBroadcastWhileIdle ==
  [][ last'.op \in {"frame", "broadcast"} => state["ctl"] = "STREAMING" ]_vars

\* The PATCHes that fail in this step.
FailingForwards == {i \in 1..Len(patched) : ~patched[i].failed /\ patched'[i].failed}

\* C30: a failure to forward an ICE candidate to the Scope backend is only
\* logged: the step in which the PATCH fails leaves the session record of every
\* server (state, ids, urls) and the bridge unchanged, the handler still answers
\* 200 {success: true}, and nothing is raised.
C30_IceForwardFailureOnlyLogged ==
  [][ Len(patched') = Len(patched) /\ FailingForwards # {}
        => /\ UNCHANGED <<sessionVars, bridgeVars, tableVars, pageVars>>
           /\ last'.op = "ice" /\ last'.code = 200 /\ last'.body.success
           /\ uncaught' = uncaught ]_vars

\* C30 witness: while the session is STREAMING, a forward has failed and a
\* later candidate was forwarded all the same and answered.
C30_Witness ==
  /\ state["sdp"] = "STREAMING"
  /\ \E i, j \in 1..Len(patched) :
       /\ i < j /\ patched[i].failed /\ ~patched[j].failed
       /\ patched[j].cand # patched[i].cand
       /\ \A p \in posts : p.stage = "patch" => p.patch # j
  /\ last.op = "ice" /\ last.code = 200

\* The entries of the three correlation tables of both servers.
Entries ==
  UNION {{tbl[s][i] : i \in DOMAIN tbl[s]} :
           s \in Servers, tbl \in {whipRequests, whepRequests, scopeRequests}}

\* C26: in every state, an exchange entry is pending, ready or error; it has an
\* answer iff it is ready and an error message iff it is error, so that a pending
\* entry has neither.
C26_ResultIffReadyErrorIffError ==
  \A e \in Entries :
    /\ e.status \in {"pending", "ready", "error"}
    /\ e.answer # Null <=> e.status = "ready"
    /\ e.error # "" <=> e.status = "error"

\* C26 witness: a ready entry and an error entry side by side, after one
\* negotiation succeeded and another failed.
C26_Witness ==
  /\ \E e \in Entries : e.status = "ready" /\ e.answer \in {AnswerFor(o) : o \in Offers}
                         /\ e.error = ""
  /\ \E e \in Entries : e.status = "error" /\ e.answer = Null /\ e.error # ""

\* C24: GET /status and GET /api/status answer 200 with the fields of the
\* session record as they are, and the step changes nothing but the response:
\* session record, correlation tables, viewer registry and frame loops are
\* left as they were.
C24_StatusIsPureRead ==
  [][ last'.op \in {"status", "api-status"} =>
        /\ UNCHANGED rest
        /\ last'.code = 200
        /\ \E s \in Servers :
             IF last'.op = "status"
             THEN /\ last'.body.state = state[s]
                  /\ last'.body.stream_id = streamId[s]
                  /\ last'.body.whip_url = whipUrl[s]
                  /\ last'.body.whep_url = whepUrl[s]
                  /\ last'.body.backend_mode = backendMode[s]
                  /\ last'.body.scope_url = scopeUrl[s]
             ELSE /\ last'.body.connected
                  /\ last'.body.streaming = (state[s] = "STREAMING")
                  /\ last'.body.stream_id = streamId[s] ]_vars

\* C24 witness: /status answered for a STREAMING session while an exchange
\* entry is in a table, a viewer is registered and a frame loop is running.
C24_Witness ==
  /\ last.op = "status" /\ last.body.state = "STREAMING" /\ last.body.stream_id # Null
  /\ Entries # {}
  /\ \E s \in Servers : wsClients[s] # <<>>
  /\ loops # EmptyBag

C39_StreamingFlagMatchesServers ==
  /\ streaming <=> (\A s \in Servers : state[s] = "STREAMING")
  /\ ~streaming <=> (\A s \in Servers : state[s] = "IDLE")

\* C39 witness: a Scope session streaming on both servers after a cloud session
\* was started and stopped.
C39_Witness ==
  /\ streaming /\ \A s \in Servers : state[s] = "STREAMING" /\ backendMode[s] = "scope"
  /\ deleted # EmptyBag

\* C31 (as claimed): every candidate is forwarded with the session id returned
\* by the negotiation (startScope run) whose peer connection gathered it, and a
\* candidate gathered while the running negotiation has no answer yet is queued,
\* not forwarded.
C31_ForwardedWithOwnSessionId ==
  [][ /\ \A i \in 1..Len(forwarded') : forwarded'[i].sessionId = forwarded'[i].attempt
      /\ (gathered' # gathered /\ relay = "negotiating") =>
            /\ forwarded' = forwarded
            /\ queuedCandidates' = Append(queuedCandidates, gathered') ]_vars

\* The routing field an offer of this kind needs on server s.
RoutingOf(s, kind) ==
  CASE kind = "whip" -> whipUrl[s]
    [] kind = "whep" -> whepUrl[s]
    [] OTHER -> scopeUrl[s]

\* C38: an offer is accepted (202, one new entry, one new upstream call) only on
\* a server that holds the routing field of its kind, and the call goes to that
\* url; an offer that is rejected gets a 4xx answer and leaves the tables, the
\* upstream calls and the issued ids as they were.
C38_NoRoutingNoExchange ==
  [][ last'.op = "submit" =>
        IF last'.code = 202
        THEN \E t \in tasks' \ tasks :
               /\ tasks' = tasks \cup {t}
               /\ t.id = last'.id
               /\ RoutingOf(t.srv, t.kind) # Null /\ t.url = RoutingOf(t.srv, t.kind)
               /\ t.id \in DOMAIN Table(t.kind)'[t.srv]
        ELSE /\ last'.code \in {400, 404}
             /\ UNCHANGED <<tableVars, tasks, issued>> ]_vars

\* C38 witness: a WHIP offer rejected during a session that streams without a
\* whipUrl, with no entry and no upstream call made.
C38_Witness ==
  /\ last.op = "submit" /\ last.code = 400
  /\ state["sdp"] = "STREAMING" /\ whipUrl["sdp"] = Null
  /\ tasks = {} /\ Entries = {}

\* C32 (as claimed): in every state the session records of the control server
\* and of the SDP server agree on state, backend mode, stream id, whip url,
\* whep url and scope url.
C32_ServersAgree ==
  /\ state["ctl"] = state["sdp"]
  /\ backendMode["ctl"] = backendMode["sdp"]
  /\ streamId["ctl"] = streamId["sdp"]
  /\ whipUrl["ctl"] = whipUrl["sdp"]
  /\ whepUrl["ctl"] = whepUrl["sdp"]
  /\ scopeUrl["ctl"] = scopeUrl["sdp"]

\* The fields of the two session records other than whepUrl agree.
ServersAgreeButWhep ==
  /\ state["ctl"] = state["sdp"]
  /\ backendMode["ctl"] = backendMode["sdp"]
  /\ streamId["ctl"] = streamId["sdp"]
  /\ whipUrl["ctl"] = whipUrl["sdp"]
  /\ scopeUrl["ctl"] = scopeUrl["sdp"]

\* C33 (as claimed): a cap keeps every correlation table below the number of
\* offers submitted to it: no table of a server ever holds an entry for each of
\* the MaxReq offers the clients submit.
C33_TablesCapped ==
  \A s \in Servers, kind \in Kinds : Cardinality(DOMAIN Table(kind)[s]) < MaxReq

\* The entry of id in the table of this kind on server s changes, within one
\* step, in one of the permitted ways only.
EntryStep(s, kind, id) ==
  LET m == Table(kind)[s]
      n == Table(kind)'[s]
  IN  /\ (id \in DOMAIN m /\ id \notin DOMAIN n) => m[id].status # "pending"
      /\ (id \notin DOMAIN m /\ id \in DOMAIN n) => n[id].status = "pending"
      /\ (id \in DOMAIN m /\ id \in DOMAIN n) =>
            \/ n[id] = m[id]
            \/ /\ m[id].status = "pending" /\ n[id].status = "ready"
               /\ n[id].answer # Null /\ n[id].error = ""
            \/ /\ m[id].status = "pending" /\ n[id].status = "error"
               /\ n[id].answer = Null /\ n[id].error # ""

\* C34: in every step, an entry either stays as it is, or goes from pending to
\* ready together with its answer, or from pending to error together with its
\* message; a new entry is pending; an entry that is removed was not pending.  So
\* a status changes at most once and a terminal entry never changes again.
C34_StatusChangesOnce ==
  [][ \A s \in Servers, kind \in Kinds, id \in ReqIds : EntryStep(s, kind, id) ]_vars

\* C34 witness: a ready entry was served and removed while another exchange is
\* still pending.
C34_Witness ==
  /\ last.op = "poll" /\ last.code = 200 /\ delivered[last.id] = 1 /\ Homes(last.id) = {}
  /\ \E e \in Entries : e.status = "pending"

Undeleted == {id \in created : ~BagIn(id, deleted)}

\* C35 (as claimed): when the only pending stream creation returns right after
\* a stop request, with no start in between, the bridge is not streaming, both
\* servers are IDLE, no frame loop was started and no created stream is left
\* without a DELETE.
C35_StopDuringStartEndsIdle ==
  [][ (last.op = "stop" /\ creating = 1 /\ creating' = 0 /\ loops = EmptyBag) =>
        /\ ~streaming'
        /\ \A s \in Servers : state'[s] = "IDLE"
        /\ loops' = EmptyBag
        /\ Undeleted' = {} ]_vars

\* C36 (as claimed): the recorded stream is a created one, and right after a
\* stop request no created upstream stream is left without a DELETE.
C36_CreatedStreamsDeleted ==
  /\ stream # Null => stream \in created
  /\ last.op = "stop" => Undeleted = {}

\* C40 (as claimed): consumeAuthState returns true at most once for a state,
\* and only for a nonempty state that createAuthState created less than the TTL
\* ago; a call that returns false leaves the stored states unchanged.
C40_AuthStateConsumedOnce ==
  [][ last'.op = "consume" =>
        /\ \A q \in QueryStates : accepted'[q] <= 1
        /\ \A q \in QueryStates :
              accepted'[q] > accepted[q] =>
                /\ q # "" /\ q \in DOMAIN createdAt
                /\ now - createdAt[q] < AUTH_STATE_TTL
        /\ last'.code = 400 => authFile' = authFile ]_vars


============================================================================
